---- MODULE Spec2Model ----
(***************************************************************************)
(* A model of the evo RPC library (src/src/index.ts): the Contract class   *)
(* (build, createApi, createListener, the capability tables) and the       *)
(* per-call engine of an API method (correlation id, deadline timer,       *)
(* retries, response handler), for the Contract class and for the older    *)
(* createClientAPI of the same file.                                       *)
(***************************************************************************)
EXTENDS Integers, Sequences, FiniteSets, Bags, TLC

\* ------------------------------------------------------------------ bounds

\* Number of invocations of API methods followed in one behaviour.
MaxCalls == 2
\* Largest retryOptions.max given to a method at construction (engine runs).
MaxRetry == 2

\* ------------------------------------------------------------- environments

Envs == {"rs", "rc", "ui"}

\* getCurrentEnv() answers undefined outside the three environments.
NoEnv == "undefined"

RealEnvs == Envs \cup {NoEnv}

PossibleApiCommunication ==
  {<<"rs", "rc">>, <<"rc", "rs">>, <<"ui", "rc">>}

\* A faulty listener table: the api table, with (ui,rc) for (rc,ui).
PossibleListenersCommunicationLikeApi ==
  {<<"rs", "rc">>, <<"rc", "rs">>, <<"ui", "rc">>}

PossibleListenersCommunication ==
  {<<"rs", "rc">>, <<"rc", "rs">>, <<"rc", "ui">>}

PossibleEnvsCommunication(type) ==
  IF type = "api" THEN PossibleApiCommunication
  ELSE PossibleListenersCommunication

canEnvsCommunicate(current, target, type) ==
  \E p \in PossibleEnvsCommunication(type) : p[1] = current /\ p[2] = target

\* A faulty table of primitives that gives rc -> ui no subscribe.
getRpcMethodsForEnvsNoNui(currentEnv, targetEnv) ==
  CASE currentEnv = "rc" /\ targetEnv = "rs" -> {"subscribe", "fire"}
    [] currentEnv = "rs" /\ targetEnv = "rc" -> {"subscribe", "fire"}
    [] currentEnv = "ui" /\ targetEnv = "rc" -> {"fire"}
    [] OTHER -> {}

\* The transport primitives a pair of environments gets: subscribe and fire
\* on the event bus, subscribe alone (rc -> ui), fire alone (ui -> rc, fetch).
getRpcMethodsForEnvs(currentEnv, targetEnv) ==
  CASE currentEnv = "rc" /\ targetEnv = "rs" -> {"subscribe", "fire"}
    [] currentEnv = "rc" /\ targetEnv = "ui" -> {"subscribe"}
    [] currentEnv = "rs" /\ targetEnv = "rc" -> {"subscribe", "fire"}
    [] currentEnv = "ui" /\ targetEnv = "rc" -> {"fire"}
    [] OTHER -> {}

\* ------------------------------------------------------------------ methods

\* The methods of the contract under study.  getNone declares neither
\* arguments nor retryOptions, getUser declares both, login declares
\* arguments and once.
Methods == {"getNone", "getUser", "login"}

\* A method value of the Contract class has no once flag: the methods of a
\* class contract are those that differ without it.
ClassMethods == {"getNone", "getUser"}

hasArgsSchema(m) == m \in {"getUser", "login"}

isOnce(m) == m = "login"

\* Payloads of response envelopes.
Data == {"d1", "d2"}
Errs == {"e1", "e2"}

Responses ==
  [ok : {TRUE}, payload : Data] \cup [ok : {FALSE}, payload : Errs]

\* The API objects a behaviour of the call engine starts from.
Routes == {"legacy", "rs-rc", "rc-rs", "ui-rc"}

CallIds == 1 .. MaxCalls

\* ------------------------------------------------------------------- state

VARIABLES
  realEnv,       \* the environment the process executes in (getCurrentEnv)
  builded,       \* Contract._builded
  retryOptions,  \* per method: the retryOptions object of the contract
  lastOp,        \* the last call of build, createApi or createListener
  subscribers,   \* the bag of wire names createListener subscribed on
  apis,          \* the (currentEnv, targetEnv) of the API objects returned
  route,         \* the API object whose methods are invoked
  onceRequests,  \* createClientAPI: the Set of consumed once methods
  calls,         \* per invocation: the closure state of one method call
  listener,      \* the listener object that serves inbound requests
  logger,        \* createServer: serverOptions.logger
  serverOnceRequests, \* createServer: the Set of consumed once methods
  listening,     \* per method: the subscription of its listener callback
  requests,      \* per inbound request: the state of its callback run
  onNetHandlers, \* createServer: per method, the callbacks on its event
  contractsLength,    \* the module counter of contract identifiers
  contracts,     \* the Contract objects constructed, in construction order
  registryOp,    \* the last constructor, build or wiring call on them
  wired,         \* the wire names that call subscribed to or fires on
  responseEvent, \* per call: its correlation id, `${rpcName}::${uuid()}`
  subscribedOn,  \* per call: the events its response handler was put on
  fired,         \* per call: the distinct request messages it emitted
  clientOnce,    \* per createClientAPI object: its Set of consumed methods
  serverOnce,    \* per createServer object: its Set of consumed methods
  objectOp,      \* the last call or request made on one of these objects
  ids,           \* the _contractUuid of one contract in two processes
  listened,      \* listener process: the wire names subscribed, by contract
  delivery       \* the request the caller's process fired last

contractVars == <<realEnv, builded, retryOptions, lastOp, subscribers, apis>>

engineVars == <<route, onceRequests, calls>>

listenVars ==
  <<listener, logger, serverOnceRequests, listening, requests, onNetHandlers>>

registryVars == <<contractsLength, contracts, registryOp, wired>>

busVars == <<responseEvent, subscribedOn, fired>>

objectVars == <<clientOnce, serverOnce, objectOp>>

linkVars == <<ids, listened, delivery>>

vars ==
  <<contractVars, engineVars, listenVars, registryVars, busVars, objectVars,
    linkVars>>

\* --------------------------------------------------------------- promises

Pending == [status |-> "pending", kind |-> "none", v |-> "none"]

\* A faulty promise whose later resolve() or reject() replaces the outcome.
SettleOverwrite(p, status, kind, v) ==
  [status |-> status, kind |-> kind, v |-> v]

\* resolve() and reject() of a promise: only the first one settles it.
Settle(p, status, kind, v) ==
  IF p.status = "pending" THEN [status |-> status, kind |-> kind, v |-> v]
  ELSE p

\* --------------------------------------------------------------- one call

NoRes == [ok |-> FALSE, payload |-> "none"]

\* The closure of one call before its invocation.  st is the executor's
\* position ("idle", "threw", "listening", "awaitFirst", "awaitRetry",
\* "returned"); timer is "none", "live", "fired" or "cleared"; subscribed is
\* the state of responseEventHandler on the correlation id; dispatches,
\* inflight and responses count the requests fired, those not yet answered
\* and the answers that came back; lastRes is the last answer.
Idle ==
  [st |-> "idle", method |-> "none", argsOk |-> TRUE, didTimedOut |-> FALSE,
   retrysCount |-> 0, timer |-> "none", subscribed |-> "no",
   promise |-> Pending, dispatches |-> 0, inflight |-> 0, responses |-> 0,
   lastRes |-> NoRes]

isBus(r) == r \in {"rs-rc", "rc-rs", "legacy"}

\* removeEventListener(responseEvent, responseEventHandler): a subscribed
\* handler ("yes") becomes a removed one.
removeEventListener(subscribed) ==
  IF subscribed = "yes" THEN "removed" ELSE subscribed

\* emitNet / fire of the request: one more request on the wire.
emitRequest(c) ==
  [c EXCEPT !.dispatches = @ + 1, !.inflight = @ + 1]

\* getParsedArgs: schema.parse throws on arguments the schema rejects.
parseThrows(m, argsOk) == hasArgsSchema(m) /\ ~argsOk

\* ------------------------------------------- Contract.createApi: a method

\* A faulty executor that subscribes and fires before it parses.
apiMethodFireFirst(r, m, argsOk) ==
  IF r = "ui-rc"
  THEN emitRequest([Idle EXCEPT !.st = "awaitFirst", !.method = m,
                                !.argsOk = argsOk, !.timer = "live"])
  ELSE emitRequest([Idle EXCEPT !.st = "listening", !.method = m,
                                !.argsOk = argsOk, !.timer = "live",
                                !.subscribed = "yes"])

\* The promise executor of a method of Contract.createApi, run up to its
\* first wait: the deadline timer is started, then the arguments are parsed
\* (a throw here ends the async executor and settles nothing), then the
\* response handler is subscribed and the request fired (rs -> rc, rc -> rs),
\* or the request is fetched and awaited (ui -> rc).
apiMethod(r, m, argsOk) ==
  IF parseThrows(m, argsOk)
  THEN [Idle EXCEPT !.st = "threw", !.method = m, !.argsOk = argsOk,
                    !.timer = "live"]
  ELSE IF r = "ui-rc"
  THEN emitRequest([Idle EXCEPT !.st = "awaitFirst", !.method = m,
                                !.argsOk = argsOk, !.timer = "live"])
  ELSE emitRequest([Idle EXCEPT !.st = "listening", !.method = m,
                                !.argsOk = argsOk, !.timer = "live",
                                !.subscribed = "yes"])

\* The callback of the deadline timer.  When the executor threw before
\* responseEventHandler was initialised, reading it in the callback either
\* throws a ReferenceError (const kept by the build: hoisted = FALSE) or
\* yields undefined (const compiled to var: hoisted = TRUE).
timeoutCallback(c, hoisted) ==
  IF c.st = "threw" /\ ~hoisted
  THEN [c EXCEPT !.didTimedOut = TRUE, !.timer = "fired"]
  ELSE [c EXCEPT !.didTimedOut = TRUE, !.timer = "fired",
                 !.subscribed = removeEventListener(@),
                 !.promise = Settle(@, "rejected", "EvoTimeoutError", "none")]

\* A faulty handler without the didTimedOut guard.
responseEventHandlerNoGuard(c, res, max) ==
  IF res.ok
  THEN [c EXCEPT !.timer = "cleared",
                 !.promise = Settle(@, "resolved", "data", res.payload),
                 !.subscribed = removeEventListener(@)]
  ELSE IF max > 0 /\ c.retrysCount < max
  THEN emitRequest([c EXCEPT !.retrysCount = @ + 1])
  ELSE [c EXCEPT !.promise = Settle(@, "rejected", "handlerError", res.payload)]

\* A faulty handler that retries once too often (<= for <).
responseEventHandlerRetryOff(c, res, max) ==
  IF c.didTimedOut THEN c
  ELSE IF res.ok
  THEN [c EXCEPT !.timer = "cleared",
                 !.promise = Settle(@, "resolved", "data", res.payload),
                 !.subscribed = removeEventListener(@)]
  ELSE IF max > 0 /\ c.retrysCount <= max
  THEN emitRequest([c EXCEPT !.retrysCount = @ + 1])
  ELSE [c EXCEPT !.promise = Settle(@, "rejected", "handlerError", res.payload)]

\* responseEventHandler of Contract.createApi (rs -> rc and rc -> rs).
responseEventHandler(c, res, max) ==
  IF c.didTimedOut THEN c
  ELSE IF res.ok
  THEN [c EXCEPT !.timer = "cleared",
                 !.promise = Settle(@, "resolved", "data", res.payload),
                 !.subscribed = removeEventListener(@)]
  ELSE IF max > 0 /\ c.retrysCount < max
  THEN emitRequest([c EXCEPT !.retrysCount = @ + 1])
  ELSE [c EXCEPT !.promise = Settle(@, "rejected", "handlerError", res.payload)]

\* The while loop of the ui -> rc branch, from its test to the next await.
uiRetryLoop(c, max) ==
  IF c.retrysCount < max
  THEN emitRequest([c EXCEPT !.retrysCount = @ + 1, !.st = "awaitRetry"])
  ELSE [c EXCEPT !.st = "returned"]

\* The ui -> rc branch after `await fire(...)` returned res: after the first
\* request (st = "awaitFirst") and after a retry (st = "awaitRetry").
uiContinue(c, res, max) ==
  IF c.st = "awaitFirst"
  THEN IF c.didTimedOut THEN [c EXCEPT !.st = "returned"]
       ELSE IF res.ok
       THEN [c EXCEPT !.timer = "cleared", !.st = "returned",
                      !.promise = Settle(@, "resolved", "envelope", res.payload)]
       ELSE IF max <= 0
       THEN [c EXCEPT !.st = "returned",
                      !.promise = Settle(@, "rejected", "handlerError", res.payload)]
       ELSE uiRetryLoop(c, max)
  ELSE IF res.ok
       THEN [c EXCEPT !.st = "returned",
                      !.promise = Settle(@, "resolved", "data", res.payload)]
       ELSE IF c.retrysCount = max
       THEN [c EXCEPT !.st = "returned",
                      !.promise = Settle(@, "rejected", "handlerError", res.payload)]
       ELSE uiRetryLoop(c, max)

\* ------------------------------------------------ createClientAPI: a method

\* The promise executor of a method of createClientAPI, run up to its first
\* wait.  The once check rejects and goes on; a parse error is caught and
\* rejects; otherwise the timer is started, the handler subscribed and the
\* request emitted.
clientMethod(m, argsOk, consumed) ==
  LET p0 == IF consumed
            THEN Settle(Pending, "rejected", "EvoOnceError", "none")
            ELSE Pending
  IN IF parseThrows(m, argsOk)
     THEN [Idle EXCEPT !.st = "returned", !.method = m, !.argsOk = argsOk,
                       !.promise = Settle(p0, "rejected", "ZodError", "none")]
     ELSE emitRequest([Idle EXCEPT !.st = "listening", !.method = m,
                                   !.argsOk = argsOk, !.timer = "live",
                                   !.subscribed = "yes", !.promise = p0])

\* The callback of the deadline timer of createClientAPI.
clientTimeoutCallback(c) ==
  [c EXCEPT !.didTimedOut = TRUE, !.timer = "fired",
            !.subscribed = removeEventListener(@),
            !.promise = Settle(@, "rejected", "EvoTimeoutError", "none")]

\* responseEventHandler of createClientAPI: its effect on the call ...
clientResponseEventHandler(c, res, max) ==
  IF c.didTimedOut THEN c
  ELSE IF ~res.ok
  THEN IF max > 0 /\ c.retrysCount < max
       THEN emitRequest([c EXCEPT !.retrysCount = @ + 1])
       ELSE [c EXCEPT !.promise = Settle(@, "rejected", "handlerError", res.payload)]
  ELSE [c EXCEPT !.promise = Settle(@, "resolved", "data", res.payload),
                 !.subscribed = removeEventListener(@),
                 !.timer = "cleared"]

\* ... and on the Set of consumed once methods.
clientOnceAdd(c, res, once) ==
  IF ~c.didTimedOut /\ res.ok /\ isOnce(c.method)
  THEN once \cup {c.method}
  ELSE once

\* ------------------------------------------------------------ engine steps

ContractRoutes == {"rs-rc", "rc-rs", "ui-rc"}

\* Invocations are numbered in the order they are made.
NextCall(c) ==
  /\ calls[c].st = "idle"
  /\ \A d \in CallIds : d < c => calls[d].st # "idle"

ArgChoices(m) == IF hasArgsSchema(m) THEN BOOLEAN ELSE {TRUE}

\* Whether an arriving response event runs the handler: a subscribed one
\* runs; a removed one runs only on a transport whose removeEventListener
\* removes nothing (honoured = FALSE), as the one of index.test.ts.
handlerRuns(subscribed, honoured) ==
  subscribed = "yes" \/ (subscribed = "removed" /\ ~honoured)

Honours(subscribed) == IF subscribed = "removed" THEN BOOLEAN ELSE {TRUE}

\* The response the transport brings back for one request of call c.
arrived(c, res) ==
  [c EXCEPT !.inflight = @ - 1, !.responses = @ + 1, !.lastRes = res]

\* A method of the object returned by createApi is invoked.
InvokeApi(c) ==
  /\ route \in ContractRoutes
  /\ NextCall(c)
  /\ \E m \in ClassMethods : \E argsOk \in ArgChoices(m) :
       calls' = [calls EXCEPT ![c] = apiMethod(route, m, argsOk)]
  /\ UNCHANGED <<contractVars, route, onceRequests>>
  /\ UNCHANGED <<listenVars, registryVars, busVars, objectVars, linkVars>>

\* The builds that differ for the timer callback of a call: whether const
\* is kept or compiled to var matters only after the executor threw.
Builds(st) == IF st = "threw" THEN BOOLEAN ELSE {TRUE}

\* The deadline timer of a call of createApi fires.
TimeoutApi(c) ==
  /\ route \in ContractRoutes
  /\ calls[c].timer = "live"
  /\ \E hoisted \in Builds(calls[c].st) :
       calls' = [calls EXCEPT ![c] = timeoutCallback(@, hoisted)]
  /\ UNCHANGED <<contractVars, route, onceRequests>>
  /\ UNCHANGED <<listenVars, registryVars, busVars, objectVars, linkVars>>

\* A response event arrives on the correlation id of a call (rs -> rc,
\* rc -> rs) and runs the subscribed handler.
ResponseBus(c) ==
  /\ route \in {"rs-rc", "rc-rs"}
  /\ calls[c].inflight > 0
  /\ \E res \in Responses : \E honoured \in Honours(calls[c].subscribed) :
       calls' = [calls EXCEPT ![c] =
                   IF handlerRuns(@.subscribed, honoured)
                   THEN responseEventHandler(arrived(@, res), res,
                                             retryOptions[@.method].max)
                   ELSE arrived(@, res)]
  /\ UNCHANGED <<contractVars, route, onceRequests>>
  /\ UNCHANGED <<listenVars, registryVars, busVars, objectVars, linkVars>>

\* The fetch of a ui -> rc call returns.
ResponseUi(c) ==
  /\ route = "ui-rc"
  /\ calls[c].st \in {"awaitFirst", "awaitRetry"}
  /\ calls[c].inflight > 0
  /\ \E res \in Responses :
       calls' = [calls EXCEPT ![c] =
                   uiContinue(arrived(@, res), res, retryOptions[@.method].max)]
  /\ UNCHANGED <<contractVars, route, onceRequests>>
  /\ UNCHANGED <<listenVars, registryVars, busVars, objectVars, linkVars>>

\* A method of the object returned by createClientAPI is invoked.
InvokeClientAPI(c) ==
  /\ route = "legacy"
  /\ NextCall(c)
  /\ \E m \in Methods : \E argsOk \in ArgChoices(m) :
       calls' = [calls EXCEPT ![c] =
                   clientMethod(m, argsOk, m \in onceRequests)]
  /\ UNCHANGED <<contractVars, route, onceRequests>>
  /\ UNCHANGED <<listenVars, registryVars, busVars, objectVars, linkVars>>

\* The deadline timer of a call of createClientAPI fires.
TimeoutClient(c) ==
  /\ route = "legacy"
  /\ calls[c].timer = "live"
  /\ calls' = [calls EXCEPT ![c] = clientTimeoutCallback(@)]
  /\ UNCHANGED <<contractVars, route, onceRequests>>
  /\ UNCHANGED <<listenVars, registryVars, busVars, objectVars, linkVars>>

\* A response event arrives on the correlation id of a createClientAPI call.
ResponseClient(c) ==
  /\ route = "legacy"
  /\ calls[c].inflight > 0
  /\ \E res \in Responses : \E honoured \in Honours(calls[c].subscribed) :
       /\ calls' = [calls EXCEPT ![c] =
                      IF handlerRuns(@.subscribed, honoured)
                      THEN clientResponseEventHandler(arrived(@, res), res,
                                                      retryOptions[@.method].max)
                      ELSE arrived(@, res)]
       /\ onceRequests' = IF handlerRuns(calls[c].subscribed, honoured)
                          THEN clientOnceAdd(calls[c], res, onceRequests)
                          ELSE onceRequests
  /\ UNCHANGED <<contractVars, route>>
  /\ UNCHANGED <<listenVars, registryVars, busVars, objectVars, linkVars>>

\* ------------------------------------------- listeners and contracts: idle

\* Largest number of inbound requests a listener object is followed for.
MaxRequests == 2

RequestIds == 1 .. MaxRequests

\* The outcome of a user handler that has not settled.
NoOutcome == [ret |-> TRUE, v |-> "none"]

\* An inbound request before its arrival.  st is "idle", "handling" (the
\* callback awaits the user handler), "done" (the callback ended) or "lost"
\* (no callback was subscribed when it arrived); invoked tells whether the
\* user handler was called, result is what it returned or threw, sent the
\* envelopes emitted to the request's response event, escaped whether an
\* exception left the callback.
NoRequest ==
  [st |-> "idle", method |-> "none", argsOk |-> TRUE, invoked |-> FALSE,
   result |-> NoOutcome, sent |-> <<>>, escaped |-> FALSE]

\* No listener object exists.
NoListener ==
  /\ listener = "none"
  /\ logger = "off"
  /\ serverOnceRequests = {}
  /\ listening = [m \in Methods |-> "no"]
  /\ requests = [r \in RequestIds |-> NoRequest]
  /\ onNetHandlers = [m \in Methods |-> 0]

NoRegistryOp == [op |-> "none", contract |-> 0, wasBuilt |-> FALSE, returns |-> 0]

\* Only the contract under study exists: the module counter is not followed.
NoRegistry ==
  /\ contractsLength = 1
  /\ contracts = <<>>
  /\ registryOp = NoRegistryOp
  /\ wired = {}

\* No correlation id is followed: the calls are told apart by their number.
NoBus ==
  /\ responseEvent = [c \in CallIds |-> <<>>]
  /\ subscribedOn = [c \in CallIds |-> {}]
  /\ fired = [c \in CallIds |-> {}]

\* Largest number of API objects, and of listener objects, followed.
MaxObjects == 2

ObjectIds == 1 .. MaxObjects

NoObjectOp ==
  [kind |-> "none", object |-> 0, method |-> "none", onceError |-> FALSE,
   ok |-> FALSE]

\* Only one API object or listener object is followed.
NoObjects ==
  /\ clientOnce = [o \in ObjectIds |-> {}]
  /\ serverOnce = [o \in ObjectIds |-> {}]
  /\ objectOp = NoObjectOp

NoDelivery == [kind |-> "none", method |-> <<>>, name |-> <<>>, reached |-> {}]

\* One process only is followed.
NoLink ==
  /\ ids = [caller |-> 0, listener |-> 0]
  /\ listened = {}
  /\ delivery = NoDelivery

\* ----------------------------------------------------- engine specification

RouteEnv(r) ==
  CASE r = "rs-rc" -> "rs"
    [] r = "rc-rs" -> "rc"
    [] r = "ui-rc" -> "ui"
    [] OTHER -> "rc"

RouteTarget(r) == IF r = "rs-rc" \/ r = "ui-rc" THEN "rc" ELSE "rs"

\* The retryOptions a method gets when the contract declares none.
DefaultRetry == [given |-> FALSE, max |-> 0, delay |-> 1000, forceDelay |-> FALSE]

NoOp == [op |-> "new", currentEnv |-> "none", targetEnv |-> "none", error |-> "none"]

WireNames == Envs \X Methods \X Envs

\* The state after the API object was created on a built contract: no call
\* made yet.  The contract gives getUser a retry maximum of 1 or of MaxRetry;
\* getNone and login have the default, 0.
Init ==
  /\ route \in Routes
  /\ realEnv = RouteEnv(route)
  /\ builded = TRUE
  /\ \E n \in {1, MaxRetry} :
       retryOptions = [m \in Methods |->
                         IF m = "getUser"
                         THEN [DefaultRetry EXCEPT !.given = TRUE, !.max = n]
                         ELSE DefaultRetry]
  /\ lastOp = IF route = "legacy" THEN NoOp
              ELSE [op |-> "createApi", currentEnv |-> RouteEnv(route),
                    targetEnv |-> RouteTarget(route), error |-> "none"]
  /\ subscribers = EmptyBag
  /\ apis = IF route = "legacy" THEN {}
            ELSE {<<RouteEnv(route), RouteTarget(route)>>}
  /\ onceRequests = {}
  /\ calls = [c \in CallIds |-> Idle]
  /\ NoListener
  /\ NoRegistry
  /\ NoBus
  /\ NoObjects
  /\ NoLink

Next ==
  \E c \in CallIds :
    \/ InvokeApi(c)
    \/ TimeoutApi(c)
    \/ ResponseBus(c)
    \/ ResponseUi(c)
    \/ InvokeClientAPI(c)
    \/ TimeoutClient(c)
    \/ ResponseClient(c)

Spec == Init /\ [][Next]_vars

\* ------------------------------------------------------- the Contract class

\* Bounds of createApi's clamping of retryOptions.
MinDelay == 500
MaxRetries == 10

\* A retryOptions object given without a delay: delay is undefined.
Undefined == -1

\* undefined < n is false in JavaScript.
jsLess(a, b) == a # Undefined /\ a < b

\* What createApi does to the retryOptions object of one method.
clampRetry(ro) ==
  LET r1 == IF jsLess(ro.delay, MinDelay) /\ ~ro.forceDelay
            THEN [ro EXCEPT !.delay = MinDelay] ELSE ro
  IN IF r1.max > MaxRetries THEN [r1 EXCEPT !.max = MaxRetries] ELSE r1

\* Faulty precondition checks of createApi: without the isBuilded() test,
\* and without the capability table.
createApiErrorNoBuildCheck(currentEnv, targetEnv) ==
  IF realEnv # currentEnv THEN "EvoEnvError"
  ELSE IF ~canEnvsCommunicate(currentEnv, targetEnv, "api")
  THEN "EvoCommunicationError"
  ELSE "none"

createApiErrorNoTable(currentEnv, targetEnv) ==
  IF ~builded THEN "EvoGlobalError"
  ELSE IF realEnv # currentEnv THEN "EvoEnvError"
  ELSE "none"

\* The error createApi throws, "none" when it goes on to build the methods.
createApiError(currentEnv, targetEnv) ==
  IF ~builded THEN "EvoGlobalError"
  ELSE IF realEnv # currentEnv THEN "EvoEnvError"
  ELSE IF ~canEnvsCommunicate(currentEnv, targetEnv, "api")
  THEN "EvoCommunicationError"
  ELSE "none"

\* Faulty precondition checks of createListener: without the environment
\* test.
createListenerErrorNoEnvCheck(currentEnv, targetEnv) ==
  IF ~builded THEN "EvoGlobalError"
  ELSE IF ~canEnvsCommunicate(currentEnv, targetEnv, "listener")
  THEN "EvoCommunicationError"
  ELSE "none"

\* The error createListener throws, "none" when it goes on to subscribe.
createListenerError(currentEnv, targetEnv) ==
  IF ~builded THEN "EvoGlobalError"
  ELSE IF ~canEnvsCommunicate(currentEnv, targetEnv, "listener")
  THEN "EvoCommunicationError"
  ELSE IF realEnv # currentEnv THEN "EvoEnvError"
  ELSE "none"

\* Largest number of callbacks followed on one wire name.
MaxSubscribe == 2

\* The handler objects given to createListener.
HandlerSets == {{}, {"getUser"}, {"getNone", "login"}, Methods}

build ==
  /\ builded' = TRUE
  /\ lastOp' = [op |-> "build", currentEnv |-> "none", targetEnv |-> "none",
                error |-> "none"]
  /\ UNCHANGED <<realEnv, retryOptions, subscribers, apis, engineVars>>
  /\ UNCHANGED <<listenVars, registryVars, busVars, objectVars, linkVars>>

createApi(currentEnv, targetEnv) ==
  LET err == createApiError(currentEnv, targetEnv) IN
  /\ lastOp' = [op |-> "createApi", currentEnv |-> currentEnv,
                targetEnv |-> targetEnv, error |-> err]
  /\ IF err = "none"
     THEN /\ retryOptions' = [m \in Methods |->
                                IF retryOptions[m].given
                                THEN clampRetry(retryOptions[m])
                                ELSE retryOptions[m]]
          /\ apis' = apis \cup {<<currentEnv, targetEnv>>}
     ELSE UNCHANGED <<retryOptions, apis>>
  /\ UNCHANGED <<realEnv, builded, subscribers, engineVars>>
  /\ UNCHANGED <<listenVars, registryVars, busVars, objectVars, linkVars>>

createListener(currentEnv, targetEnv, listeners) ==
  LET err == createListenerError(currentEnv, targetEnv) IN
  /\ lastOp' = [op |-> "createListener", currentEnv |-> currentEnv,
                targetEnv |-> targetEnv, error |-> err]
  /\ IF err = "none"
     THEN /\ \A m \in listeners :
               CopiesIn(<<currentEnv, m, targetEnv>>, subscribers)
                 < MaxSubscribe
          /\ subscribers' =
               subscribers (+)
               SetToBag({w \in WireNames :
                           /\ w[1] = currentEnv /\ w[3] = targetEnv
                           /\ w[2] \in listeners
                           /\ "subscribe" \in
                                getRpcMethodsForEnvs(currentEnv, targetEnv)})
     ELSE UNCHANGED subscribers
  /\ UNCHANGED <<realEnv, builded, retryOptions, apis, engineVars>>
  /\ UNCHANGED <<listenVars, registryVars, busVars, objectVars, linkVars>>

\* The retryOptions a contract may give getUser at construction.
RetryChoices ==
  { DefaultRetry,
    [given |-> TRUE, max |-> 0, delay |-> 1000, forceDelay |-> FALSE],
    [given |-> TRUE, max |-> 2, delay |-> 100, forceDelay |-> TRUE],
    [given |-> TRUE, max |-> MaxRetries, delay |-> MinDelay, forceDelay |-> FALSE],
    [given |-> TRUE, max |-> MaxRetries + 1, delay |-> 100, forceDelay |-> FALSE],
    [given |-> TRUE, max |-> 3, delay |-> Undefined, forceDelay |-> FALSE] }

\* A contract just constructed, in a process of any environment.
InitWire ==
  /\ realEnv \in RealEnvs
  /\ builded = FALSE
  /\ \E ro \in RetryChoices :
       retryOptions = [m \in Methods |->
                         IF m = "getUser" THEN ro ELSE DefaultRetry]
  /\ lastOp = NoOp
  /\ subscribers = EmptyBag
  /\ apis = {}
  /\ route = "none"
  /\ onceRequests = {}
  /\ calls = [c \in CallIds |-> Idle]
  /\ NoListener
  /\ NoRegistry
  /\ NoBus
  /\ NoObjects
  /\ NoLink

NextWire ==
  \/ build
  \/ \E currentEnv \in Envs, targetEnv \in Envs :
       createApi(currentEnv, targetEnv)
  \/ \E currentEnv \in Envs, targetEnv \in Envs, listeners \in HandlerSets :
       createListener(currentEnv, targetEnv, listeners)

SpecWire == InitWire /\ [][NextWire]_vars

\* ------------------------------------------------------------ listener side

\* What a user handler may throw or reject with: an Error, a value that is
\* not an object (a string), or null / undefined (as reject() without a
\* reason does).
Thrown == {"Error", "text", "nullish"}

\* What a user handler settles with: a returned value or a thrown one.
Outcomes == [ret : {TRUE}, v : Data] \cup [ret : {FALSE}, v : Thrown]

\* The listener objects: createServer, and createListener on its legal pairs.
Listeners == {"server", "rs-rc", "rc-rs", "rc-ui"}

ContractListeners == {"rs-rc", "rc-rs", "rc-ui"}

ListenerEnv(l) == IF l = "rs-rc" \/ l = "server" THEN "rs" ELSE "rc"

ListenerTarget(l) ==
  CASE l = "rc-rs" -> "rs"
    [] l = "rc-ui" -> "ui"
    [] OTHER -> "rc"

\* The methods of the contract the listener object was made from.
ListenerMethods(l) == IF l = "server" THEN Methods ELSE ClassMethods

\* { ok: true, data: res }
successEnvelope(v) == [ok |-> TRUE, type |-> "none", v |-> v]

\* error.constructor.name of a thrown value that is not null or undefined.
constructorName(thrown) == IF thrown = "text" THEN "String" ELSE thrown

\* error.type of a thrown value: none of these values carries the property.
typeProperty(thrown) == "undefined"

\* { ok: false, error: { message, type } }
errorPayload(type, thrown) == [ok |-> FALSE, type |-> type, v |-> thrown]

\* The catch block of the createListener callback and of nuiCallback:
\* reading error.message of null or undefined throws inside the catch, so
\* nothing is sent and the exception leaves the callback.
callbackCatch(q, thrown) ==
  IF thrown = "nullish"
  THEN [q EXCEPT !.st = "done", !.escaped = TRUE]
  ELSE [q EXCEPT !.st = "done",
                 !.sent = Append(@, errorPayload(constructorName(thrown), thrown))]

\* The callback of createListener (rs -> rc, rc -> rs) from the arrival of a
\* request to its await of the user handler: the arguments are parsed, a
\* parse error goes to the catch block.
callbackEntry(m, argsOk) ==
  LET q == [NoRequest EXCEPT !.method = m, !.argsOk = argsOk]
  IN IF parseThrows(m, argsOk)
     THEN callbackCatch(q, "ZodError")
     ELSE [q EXCEPT !.st = "handling", !.invoked = TRUE]

\* The callback of createListener after the user handler settled.
callbackExit(q, out) ==
  IF out.ret
  THEN [q EXCEPT !.st = "done", !.result = out,
                 !.sent = Append(@, successEnvelope(out.v))]
  ELSE callbackCatch([q EXCEPT !.result = out], out.v)

\* nuiCallback of createListener (rc -> ui) from the arrival of a request to
\* its await of the user handler: the handler is called with the arguments
\* as they came.
nuiCallbackEntry(m, argsOk) ==
  [NoRequest EXCEPT !.method = m, !.argsOk = argsOk, !.st = "handling",
                    !.invoked = TRUE]

\* nuiCallback after the user handler settled: cb(...) of the result or of
\* the error payload.
nuiCallbackExit(q, out) ==
  IF out.ret
  THEN [q EXCEPT !.st = "done", !.result = out,
                 !.sent = Append(@, successEnvelope(out.v))]
  ELSE callbackCatch([q EXCEPT !.result = out], out.v)

\* The catch block of the createServer callback: destructuring null or
\* undefined throws inside the catch.
serverCatch(q, thrown) ==
  IF thrown = "nullish"
  THEN [q EXCEPT !.st = "done", !.escaped = TRUE]
  ELSE [q EXCEPT !.st = "done",
                 !.sent = Append(@, errorPayload(typeProperty(thrown), thrown))]

\* The callback of createServer from the arrival of a request to its await
\* of the user handler: the once check answers and returns, then the
\* arguments are parsed.
serverCallbackEntry(m, argsOk, consumed) ==
  LET q == [NoRequest EXCEPT !.method = m, !.argsOk = argsOk]
  IN IF consumed
     THEN [q EXCEPT !.st = "done",
                    !.sent = Append(@, errorPayload("EvoOnceError", "none"))]
     ELSE IF parseThrows(m, argsOk)
     THEN serverCatch(q, "ZodError")
     ELSE [q EXCEPT !.st = "handling", !.invoked = TRUE]

\* The callback of createServer after the user handler settled: the success
\* is emitted before the logger runs, and a throwing logFormat goes to the
\* catch block.
serverCallbackExit(q, out, log) ==
  IF out.ret
  THEN LET q1 == [q EXCEPT !.result = out,
                           !.sent = Append(@, successEnvelope(out.v))]
       IN IF log = "throws" THEN serverCatch(q1, "Error")
          ELSE [q1 EXCEPT !.st = "done"]
  ELSE serverCatch([q EXCEPT !.result = out], out.v)

\* The finally block of the createServer callback, on the Set of consumed
\* once methods and on the subscription of the callback.
serverFinallyOnce(m, once) == IF isOnce(m) THEN once \cup {m} ELSE once

serverFinallyListening(m, sub) ==
  IF isOnce(m) THEN removeEventListener(sub) ELSE sub

\* Requests are numbered in the order they arrive.
NextRequest(r) ==
  /\ requests[r].st = "idle"
  /\ \A d \in RequestIds : d < r => requests[d].st # "idle"

\* A request arrives on the wire name of a createListener callback.
RequestListener(r) ==
  /\ listener \in {"rs-rc", "rc-rs"}
  /\ NextRequest(r)
  /\ \E m \in ClassMethods : \E argsOk \in ArgChoices(m) :
       requests' = [requests EXCEPT ![r] = callbackEntry(m, argsOk)]
  /\ UNCHANGED <<listener, logger, serverOnceRequests, listening>>
  /\ UNCHANGED onNetHandlers
  /\ UNCHANGED <<contractVars, engineVars, registryVars, busVars, objectVars, linkVars>>

\* The user handler a createListener callback awaits settles.
SettleListener(r) ==
  /\ listener \in {"rs-rc", "rc-rs"}
  /\ requests[r].st = "handling"
  /\ \E out \in Outcomes :
       requests' = [requests EXCEPT ![r] = callbackExit(@, out)]
  /\ UNCHANGED <<listener, logger, serverOnceRequests, listening>>
  /\ UNCHANGED onNetHandlers
  /\ UNCHANGED <<contractVars, engineVars, registryVars, busVars, objectVars, linkVars>>

\* A request of the UI arrives at a nuiCallback.
RequestNui(r) ==
  /\ listener = "rc-ui"
  /\ NextRequest(r)
  /\ \E m \in ClassMethods : \E argsOk \in ArgChoices(m) :
       requests' = [requests EXCEPT ![r] = nuiCallbackEntry(m, argsOk)]
  /\ UNCHANGED <<listener, logger, serverOnceRequests, listening>>
  /\ UNCHANGED onNetHandlers
  /\ UNCHANGED <<contractVars, engineVars, registryVars, busVars, objectVars, linkVars>>

\* The user handler a nuiCallback awaits settles.
SettleNui(r) ==
  /\ listener = "rc-ui"
  /\ requests[r].st = "handling"
  /\ \E out \in Outcomes :
       requests' = [requests EXCEPT ![r] = nuiCallbackExit(@, out)]
  /\ UNCHANGED <<listener, logger, serverOnceRequests, listening>>
  /\ UNCHANGED onNetHandlers
  /\ UNCHANGED <<contractVars, engineVars, registryVars, busVars, objectVars, linkVars>>

\* A request arrives on the event of a createServer method: its callback
\* runs when the transport still has it; the finally block runs when the
\* try block ended in this step.
RequestServer(r) ==
  /\ listener = "server"
  /\ NextRequest(r)
  /\ \E m \in Methods : \E argsOk \in ArgChoices(m) :
     \E honoured \in Honours(listening[m]) :
       IF handlerRuns(listening[m], honoured)
       THEN LET q == serverCallbackEntry(m, argsOk, m \in serverOnceRequests)
                tried == m \notin serverOnceRequests /\ q.st = "done"
            IN /\ requests' = [requests EXCEPT ![r] = q]
               /\ serverOnceRequests' =
                    IF tried THEN serverFinallyOnce(m, serverOnceRequests)
                    ELSE serverOnceRequests
               /\ listening' =
                    IF tried
                    THEN [listening EXCEPT ![m] = serverFinallyListening(m, @)]
                    ELSE listening
       ELSE /\ requests' = [requests EXCEPT ![r] =
                              [NoRequest EXCEPT !.st = "lost", !.method = m,
                                                !.argsOk = argsOk]]
            /\ UNCHANGED <<serverOnceRequests, listening>>
  /\ UNCHANGED <<listener, logger, onNetHandlers>>
  /\ UNCHANGED <<contractVars, engineVars, registryVars, busVars, objectVars, linkVars>>

\* The user handler a createServer callback awaits settles; the finally
\* block follows.
SettleServer(r) ==
  /\ listener = "server"
  /\ requests[r].st = "handling"
  /\ \E out \in Outcomes :
       requests' = [requests EXCEPT ![r] = serverCallbackExit(@, out, logger)]
  /\ serverOnceRequests' =
       serverFinallyOnce(requests[r].method, serverOnceRequests)
  /\ listening' = [listening EXCEPT ![requests[r].method] =
                     serverFinallyListening(requests[r].method, @)]
  /\ UNCHANGED <<listener, logger, onNetHandlers>>
  /\ UNCHANGED <<contractVars, engineVars, registryVars, busVars, objectVars, linkVars>>

LoggerChoices(l) == IF l = "server" THEN {"off", "ok", "throws"} ELSE {"off"}

\* The state after createServer, or createListener with a handler for every
\* method on a built contract, returned: no request arrived yet.
InitListen ==
  /\ listener \in Listeners
  /\ logger \in LoggerChoices(listener)
  /\ serverOnceRequests = {}
  /\ listening = [m \in Methods |->
                    IF m \in ListenerMethods(listener) THEN "yes" ELSE "no"]
  /\ requests = [r \in RequestIds |-> NoRequest]
  /\ onNetHandlers = [m \in Methods |-> IF listener = "server" THEN 1 ELSE 0]
  /\ realEnv = ListenerEnv(listener)
  /\ builded = TRUE
  /\ retryOptions = [m \in Methods |-> DefaultRetry]
  /\ lastOp = IF listener = "server" THEN NoOp
              ELSE [op |-> "createListener",
                    currentEnv |-> ListenerEnv(listener),
                    targetEnv |-> ListenerTarget(listener), error |-> "none"]
  /\ subscribers = SetToBag({w \in WireNames :
                                /\ listener \in ContractListeners
                                /\ w[1] = ListenerEnv(listener)
                                /\ w[3] = ListenerTarget(listener)
                                /\ w[2] \in ClassMethods})
  /\ apis = {}
  /\ route = "none"
  /\ onceRequests = {}
  /\ calls = [c \in CallIds |-> Idle]
  /\ NoRegistry
  /\ NoBus
  /\ NoObjects
  /\ NoLink

NextListen ==
  \E r \in RequestIds :
    \/ RequestListener(r)
    \/ SettleListener(r)
    \/ RequestNui(r)
    \/ SettleNui(r)
    \/ RequestServer(r)
    \/ SettleServer(r)

SpecListen == InitListen /\ [][NextListen]_vars

\* ---------------------------------------------------- several contracts

\* Largest number of Contract objects constructed in one process.
MaxContracts == 2

\* An options object: has tells whether it owns the key timeout.
defaultContractOptions == [has |-> TRUE, timeout |-> 7500]

EmptyObject == [has |-> FALSE, timeout |-> Undefined]

\* The options argument of the constructor: absent, {} or { timeout }.
NoOptions == [some |-> FALSE, o |-> EmptyObject]

OptionChoices ==
  { NoOptions,
    [some |-> TRUE, o |-> EmptyObject],
    [some |-> TRUE, o |-> [has |-> TRUE, timeout |-> 1000]] }

\* A faulty merge that lets the defaults win: { ...b, ...a }.
spreadDefaultsLast(a, b) == IF a.has THEN a ELSE b

\* { ...a, ...b }: the keys of b replace those of a.
spread(a, b) == IF b.has THEN b ELSE a

\* The fields of a Contract after its constructor ran, contractsLength
\* being length: given keeps the options argument.
newContract(given, length) ==
  [uuid |-> length, given |-> given,
   options |-> IF given.some THEN given.o ELSE defaultContractOptions,
   builded |-> FALSE]

\* A faulty counter that is read but not incremented.
nextContractsLengthStuck(n) == n

\* contractsLength++
nextContractsLength(n) == n + 1

\* A faulty build() that flips _builded.
buildContractToggle(ct) ==
  [ct EXCEPT !.options = spread(defaultContractOptions, @),
             !.builded = ~@]

\* build() on the fields of a Contract.
buildContract(ct) ==
  [ct EXCEPT !.options = spread(defaultContractOptions, @),
             !.builded = TRUE]

\* The preconditions of createApi and createListener on one of several
\* contracts.
createApiErrorOf(ct, currentEnv, targetEnv) ==
  IF ~ct.builded THEN "EvoGlobalError"
  ELSE IF realEnv # currentEnv THEN "EvoEnvError"
  ELSE IF ~canEnvsCommunicate(currentEnv, targetEnv, "api")
  THEN "EvoCommunicationError"
  ELSE "none"

createListenerErrorOf(ct, currentEnv, targetEnv) ==
  IF ~ct.builded THEN "EvoGlobalError"
  ELSE IF ~canEnvsCommunicate(currentEnv, targetEnv, "listener")
  THEN "EvoCommunicationError"
  ELSE IF realEnv # currentEnv THEN "EvoEnvError"
  ELSE "none"

\* Strings are sequences of tokens.  The method names of the contracts: a
\* plain one, and one that reads like the tail of a wire name.
RpcNames == { <<"getUser">>, <<"getUser", "::", "rc", "::", "1">> }

DigitChars == <<"0", "1", "2", "3", "4", "5", "6", "7", "8", "9">>

\* The decimal digits a number is formatted with in a template string.
RECURSIVE Digits(_)
Digits(n) ==
  IF n < 10 THEN <<DigitChars[n + 1]>>
  ELSE Digits(n \div 10) \o <<DigitChars[(n % 10) + 1]>>

\* `${a}::${rpcName}::${b}::${this._contractUuid}`: a is currentEnv in
\* createListener and targetEnv in createApi.
rpcEventName(a, rpcName, b, contractUuid) ==
  <<a, "::">> \o rpcName \o <<"::", b, "::">> \o Digits(contractUuid)

\* new Contract(contract, options)
construct(given) ==
  /\ Len(contracts) < MaxContracts
  /\ contracts' = Append(contracts, newContract(given, contractsLength))
  /\ contractsLength' = nextContractsLength(contractsLength)
  /\ registryOp' = [op |-> "new", contract |-> Len(contracts) + 1,
                    wasBuilt |-> FALSE, returns |-> Len(contracts) + 1]
  /\ wired' = {}
  /\ UNCHANGED <<contractVars, engineVars, listenVars, busVars, objectVars, linkVars>>

\* build() of the k-th contract: it returns this.
buildOf(k) ==
  /\ k \in DOMAIN contracts
  /\ contracts' = [contracts EXCEPT ![k] = buildContract(@)]
  /\ registryOp' = [op |-> "build", contract |-> k,
                    wasBuilt |-> contracts[k].builded, returns |-> k]
  /\ wired' = {}
  /\ UNCHANGED contractsLength
  /\ UNCHANGED <<contractVars, engineVars, listenVars, busVars, objectVars, linkVars>>

\* createApi of the k-th contract: its methods fire on the wire names.
createApiOf(k, currentEnv, targetEnv) ==
  /\ k \in DOMAIN contracts
  /\ registryOp' = [op |-> "createApi", contract |-> k,
                    wasBuilt |-> contracts[k].builded, returns |-> 0]
  /\ wired' =
       IF createApiErrorOf(contracts[k], currentEnv, targetEnv) = "none"
       THEN { <<k, rpcEventName(targetEnv, n, currentEnv, contracts[k].uuid)>> :
                n \in RpcNames }
       ELSE {}
  /\ UNCHANGED <<contractsLength, contracts>>
  /\ UNCHANGED <<contractVars, engineVars, listenVars, busVars, objectVars, linkVars>>

\* createListener of the k-th contract, with a handler for every method: it
\* subscribes to the wire names.
createListenerOf(k, currentEnv, targetEnv) ==
  /\ k \in DOMAIN contracts
  /\ registryOp' = [op |-> "createListener", contract |-> k,
                    wasBuilt |-> contracts[k].builded, returns |-> 0]
  /\ wired' =
       IF createListenerErrorOf(contracts[k], currentEnv, targetEnv) = "none"
       THEN { <<k, rpcEventName(currentEnv, n, targetEnv, contracts[k].uuid)>> :
                n \in RpcNames }
       ELSE {}
  /\ UNCHANGED <<contractsLength, contracts>>
  /\ UNCHANGED <<contractVars, engineVars, listenVars, busVars, objectVars, linkVars>>

ContractIds == 1 .. MaxContracts

\* A process that has loaded the module and constructed no contract.
InitRegistry ==
  /\ realEnv \in Envs
  /\ builded = FALSE
  /\ retryOptions = [m \in Methods |-> DefaultRetry]
  /\ lastOp = NoOp
  /\ subscribers = EmptyBag
  /\ apis = {}
  /\ route = "none"
  /\ onceRequests = {}
  /\ calls = [c \in CallIds |-> Idle]
  /\ NoListener
  /\ NoRegistry
  /\ NoBus
  /\ NoObjects
  /\ NoLink

NextRegistry ==
  \/ \E given \in OptionChoices : construct(given)
  \/ \E k \in ContractIds : buildOf(k)
  \/ \E k \in ContractIds, currentEnv \in Envs, targetEnv \in Envs :
       createApiOf(k, currentEnv, targetEnv)
  \/ \E k \in ContractIds, currentEnv \in Envs, targetEnv \in Envs :
       createListenerOf(k, currentEnv, targetEnv)

SpecRegistry == InitRegistry /\ [][NextRegistry]_vars

\* ------------------------------------------------- subscriptions of listeners

\* createServer(contract, opts): one callback is followed on the event of
\* every method of opts.
createServer(opts) ==
  /\ \A m \in opts : onNetHandlers[m] < MaxSubscribe
  /\ onNetHandlers' = [m \in Methods |->
                         IF m \in opts THEN onNetHandlers[m] + 1
                         ELSE onNetHandlers[m]]
  /\ lastOp' = [op |-> "createServer", currentEnv |-> "none",
                targetEnv |-> "none", error |-> "none"]
  /\ UNCHANGED <<realEnv, builded, retryOptions, subscribers, apis>>
  /\ UNCHANGED <<listener, logger, serverOnceRequests, listening, requests>>
  /\ UNCHANGED <<engineVars, registryVars, busVars, objectVars, linkVars>>

\* A built contract in a process of one of the environments, before any
\* listener was created.
InitSubscribe ==
  /\ realEnv \in Envs
  /\ builded = TRUE
  /\ retryOptions = [m \in Methods |-> DefaultRetry]
  /\ lastOp = [op |-> "build", currentEnv |-> "none", targetEnv |-> "none",
               error |-> "none"]
  /\ subscribers = EmptyBag
  /\ apis = {}
  /\ route = "none"
  /\ onceRequests = {}
  /\ calls = [c \in CallIds |-> Idle]
  /\ NoListener
  /\ NoRegistry
  /\ NoBus
  /\ NoObjects
  /\ NoLink

NextSubscribe ==
  \/ \E currentEnv \in Envs, targetEnv \in Envs, listeners \in HandlerSets :
       createListener(currentEnv, targetEnv, listeners)
  \/ \E opts \in HandlerSets : createServer(opts)

SpecSubscribe == InitSubscribe /\ [][NextSubscribe]_vars

\* ------------------------------------------------- calls by correlation id
\* The tokens uuid() may return: it draws every digit with Math.random, so
\* two calls may draw the same one.
Tokens == {"t1", "t2"}

\* The tokens are told apart only by being equal or not: the first call's
\* draw is named t1.
Draws(c) == IF c = 1 THEN {"t1"} ELSE Tokens

\* `${rpcName}::${uuid()}` (createApi), `${methodName}::${uuid()}`
\* (createClientAPI).
correlationId(m, token) == <<m, "::", token>>

\* The arguments of the first fire / emitNet of a call: the wire name of the
\* method, src on rs -> rc, the parsed arguments and the correlation id.
firstRequest(r, id) ==
  [name |-> id[1], src |-> IF r = "rs-rc" THEN "src" ELSE "none",
   args |-> "parsedArgs", responseEvent |-> id]

\* A faulty retry that draws a new correlation id.
retryRequestFreshId(r, id) ==
  [name |-> id[1], src |-> IF r = "rs-rc" THEN "src" ELSE "none",
   args |-> "parsedArgs", responseEvent |-> <<id[1], "::", "fresh">>]

\* The arguments of the emitNet of the retry branch of responseEventHandler.
retryRequest(r, id) ==
  [name |-> id[1], src |-> IF r = "rs-rc" THEN "src" ELSE "none",
   args |-> "parsedArgs", responseEvent |-> id]

\* A faulty bus that hands an event to the handlers of its method name.
listensOnMethod(d, e) == \E s \in subscribedOn[d] : s[1] = e[1]

\* Whether emit(e, ...) of the bus reaches the handler of call d: the bus
\* keeps the handlers by event name.
listensOn(d, e) == e \in subscribedOn[d]

BusRoutes == {"rs-rc", "rc-rs", "legacy"}

\* The answers followed on the bus: one success and one failure envelope.
BusResponses ==
  {[ok |-> TRUE, payload |-> "d1"], [ok |-> FALSE, payload |-> "e1"]}

\* A method of the API object is invoked: the executor draws the correlation
\* id (createClientAPI only after the arguments parsed), subscribes the
\* handler on it and emits the first request.
CorrelatedInvoke(c) ==
  /\ route \in BusRoutes
  /\ NextCall(c)
  /\ \E m \in IF route = "legacy" THEN Methods ELSE ClassMethods :
       \E argsOk \in ArgChoices(m) : \E token \in Draws(c) :
         LET id == correlationId(m, token)
             call == IF route = "legacy"
                     THEN clientMethod(m, argsOk, m \in onceRequests)
                     ELSE apiMethod(route, m, argsOk)
         IN /\ calls' = [calls EXCEPT ![c] = call]
            /\ responseEvent' =
                 [responseEvent EXCEPT ![c] =
                    IF route = "legacy" /\ parseThrows(m, argsOk)
                    THEN <<>> ELSE id]
            /\ subscribedOn' =
                 [subscribedOn EXCEPT ![c] =
                    IF call.subscribed = "yes" THEN {id} ELSE {}]
            /\ fired' =
                 [fired EXCEPT ![c] =
                    IF call.dispatches > 0
                    THEN {firstRequest(route, id)} ELSE {}]
  /\ UNCHANGED <<contractVars, route, onceRequests>>
  /\ UNCHANGED <<listenVars, registryVars, objectVars, linkVars>>

\* The deadline timer of a call fires.
CorrelatedTimeout(c) ==
  /\ route \in BusRoutes
  /\ calls[c].timer = "live"
  /\ \E hoisted \in Builds(calls[c].st) :
       calls' = [calls EXCEPT ![c] =
                   IF route = "legacy" THEN clientTimeoutCallback(@)
                   ELSE timeoutCallback(@, hoisted)]
  /\ UNCHANGED <<contractVars, route, onceRequests>>
  /\ UNCHANGED <<listenVars, registryVars, busVars, objectVars, linkVars>>

\* The handlers the bus runs for an event e: those kept under e, a removed
\* one only on a transport whose removeEventListener removes nothing.
listenersOf(e, honoured) ==
  {d \in CallIds : listensOn(d, e) /\ handlerRuns(calls[d].subscribed, honoured)}

\* The answer to one request of call c arrives: the listener emitted it to
\* the responseEvent the request carried, and the bus runs every handler
\* kept under that event name.
CorrelatedResponse(c) ==
  /\ route \in BusRoutes
  /\ calls[c].inflight > 0
  /\ \E msg \in fired[c] : \E res \in BusResponses :
     \E honoured \in IF \E d \in CallIds : /\ listensOn(d, msg.responseEvent)
                                           /\ calls[d].subscribed = "removed"
                     THEN BOOLEAN ELSE {TRUE} :
       LET run == listenersOf(msg.responseEvent, honoured)
           before(d) == IF d = c THEN arrived(calls[d], res) ELSE calls[d]
           after(d) ==
             IF d \notin run THEN before(d)
             ELSE IF route = "legacy"
             THEN clientResponseEventHandler(before(d), res,
                                             retryOptions[calls[d].method].max)
             ELSE responseEventHandler(before(d), res,
                                       retryOptions[calls[d].method].max)
       IN /\ calls' = [d \in CallIds |-> after(d)]
          /\ onceRequests' =
               IF route = "legacy"
               THEN onceRequests \cup
                      UNION {clientOnceAdd(calls[d], res, {}) : d \in run}
               ELSE onceRequests
          /\ fired' =
               [d \in CallIds |->
                  IF after(d).dispatches > calls[d].dispatches
                  THEN fired[d] \cup {retryRequest(route, responseEvent[d])}
                  ELSE fired[d]]
  /\ UNCHANGED <<contractVars, route, responseEvent, subscribedOn>>
  /\ UNCHANGED <<listenVars, registryVars, objectVars, linkVars>>

\* The state after the API object of a bus route was created on a built
\* contract whose getUser is retried once.
InitCorrelate ==
  /\ route \in BusRoutes
  /\ realEnv = RouteEnv(route)
  /\ builded = TRUE
  /\ retryOptions = [m \in Methods |->
                       IF m = "getUser"
                       THEN [DefaultRetry EXCEPT !.given = TRUE, !.max = 1]
                       ELSE DefaultRetry]
  /\ lastOp = IF route = "legacy" THEN NoOp
              ELSE [op |-> "createApi", currentEnv |-> RouteEnv(route),
                    targetEnv |-> RouteTarget(route), error |-> "none"]
  /\ subscribers = EmptyBag
  /\ apis = IF route = "legacy" THEN {}
            ELSE {<<RouteEnv(route), RouteTarget(route)>>}
  /\ onceRequests = {}
  /\ calls = [c \in CallIds |-> Idle]
  /\ NoListener
  /\ NoRegistry
  /\ NoBus
  /\ NoObjects
  /\ NoLink

NextCorrelate ==
  \E c \in CallIds :
    \/ CorrelatedInvoke(c)
    \/ CorrelatedTimeout(c)
    \/ CorrelatedResponse(c)

SpecCorrelate == InitCorrelate /\ [][NextCorrelate]_vars

\* ------------------------------------------- once registries, per object
\* A faulty lookup in one registry shared by all the objects.
consumedInAny(registry, o, m) == \E p \in ObjectIds : m \in registry[p]

\* onceRequests.has(name): the Set is a const of the createClientAPI or
\* createServer call that made object o.
consumedIn(registry, o, m) == m \in registry[o]

\* A method of API object o is invoked and runs to its outcome: the
\* executor, then the handler on the answer res when a request went out.
\* The methods have the default retryOptions.
callOf(o) ==
  \E m \in Methods : \E argsOk \in ArgChoices(m) : \E res \in BusResponses :
    LET first == clientMethod(m, argsOk, consumedIn(clientOnce, o, m))
        answered == first.inflight > 0
        last == IF answered
                THEN clientResponseEventHandler(arrived(first, res), res,
                                                DefaultRetry.max)
                ELSE first
    IN /\ clientOnce' =
            [clientOnce EXCEPT ![o] =
               IF answered THEN clientOnceAdd(first, res, @) ELSE @]
       /\ objectOp' = [kind |-> "call", object |-> o, method |-> m,
                       onceError |-> last.promise.kind = "EvoOnceError",
                       ok |-> last.promise.status = "resolved"]
       /\ UNCHANGED serverOnce
       /\ UNCHANGED <<contractVars, engineVars, listenVars>>
       /\ UNCHANGED <<registryVars, busVars, linkVars>>

\* A request arrives at listener object o and its callback runs to the
\* end; the callback of a consumed once method was removed in the finally
\* block and runs only on a transport that removes nothing.
requestOf(o) ==
  \E m \in Methods : \E argsOk \in ArgChoices(m) : \E out \in Outcomes :
  \E honoured \in IF consumedIn(serverOnce, o, m) THEN BOOLEAN ELSE {TRUE} :
    LET consumed == consumedIn(serverOnce, o, m)
        listens == IF consumed THEN serverFinallyListening(m, "yes")
                   ELSE "yes"
        entry == serverCallbackEntry(m, argsOk, consumed)
        q == IF entry.st = "handling"
             THEN serverCallbackExit(entry, out, "off") ELSE entry
    IN IF handlerRuns(listens, honoured)
       THEN /\ serverOnce' =
                 [serverOnce EXCEPT ![o] =
                    IF consumed THEN @ ELSE serverFinallyOnce(m, @)]
            /\ objectOp' =
                 [kind |-> "request", object |-> o, method |-> m,
                  onceError |-> \E i \in 1 .. Len(q.sent) :
                                   q.sent[i].type = "EvoOnceError",
                  ok |-> \E i \in 1 .. Len(q.sent) : q.sent[i].ok]
            /\ UNCHANGED clientOnce
            /\ UNCHANGED <<contractVars, engineVars, listenVars>>
            /\ UNCHANGED <<registryVars, busVars, linkVars>>
       ELSE /\ objectOp' = [kind |-> "lost", object |-> o, method |-> m,
                            onceError |-> FALSE, ok |-> FALSE]
            /\ UNCHANGED <<clientOnce, serverOnce>>
            /\ UNCHANGED <<contractVars, engineVars, listenVars>>
            /\ UNCHANGED <<registryVars, busVars, linkVars>>

\* The state after the API objects and the listener objects were made: no
\* call and no request yet.
InitObjects ==
  /\ realEnv \in {"rs", "rc"}
  /\ builded = FALSE
  /\ retryOptions = [m \in Methods |-> DefaultRetry]
  /\ lastOp = NoOp
  /\ subscribers = EmptyBag
  /\ apis = {}
  /\ route = "legacy"
  /\ onceRequests = {}
  /\ calls = [c \in CallIds |-> Idle]
  /\ NoListener
  /\ NoRegistry
  /\ NoBus
  /\ NoObjects
  /\ NoLink

NextObjects ==
  \E o \in ObjectIds :
    \/ callOf(o)
    \/ requestOf(o)

SpecObjects == InitObjects /\ [][NextObjects]_vars

\* ------------------------------------------ one contract in two processes
\* createApi: `${targetEnv}::${rpcName}::${currentEnv}::${this._contractUuid}`
apiEventName(currentEnv, rpcName, targetEnv, contractUuid) ==
  rpcEventName(targetEnv, rpcName, currentEnv, contractUuid)

\* createListener:
\* `${currentEnv}::${rpcName}::${targetEnv}::${this._contractUuid}`
listenerEventName(currentEnv, rpcName, targetEnv, contractUuid) ==
  rpcEventName(currentEnv, rpcName, targetEnv, contractUuid)

\* The handler objects given to createListener: some methods of the contract.
ListenerChoices == (SUBSET RpcNames) \ {{}}

\* createListener(b, a, listeners) in the listener's process, of the
\* contract that has identifier j there: a being the caller's environment
\* and b the listener's, it subscribes on the wire name of every method it
\* was given a handler for.  No request is under way.
subscribeOf(j, listeners) ==
  LET a == RouteEnv(route)
      b == RouteTarget(route)
  IN /\ canEnvsCommunicate(b, a, "listener")
     /\ "subscribe" \in getRpcMethodsForEnvs(b, a)
     /\ listened' = listened \cup
                      {<<j, listenerEventName(b, n, a, j)>> : n \in listeners}
     /\ delivery' = NoDelivery
     /\ UNCHANGED ids
     /\ UNCHANGED <<contractVars, engineVars, listenVars>>
     /\ UNCHANGED <<registryVars, busVars, objectVars>>

\* The subscribers the transport hands an event to: those subscribed on
\* its name.
subscribersOn(name) == {w[1] : w \in {x \in listened : x[2] = name}}

\* A method of createApi(a, b) of the contract is invoked in the caller's
\* process: the request is fired on the wire name and reaches the
\* subscribers on that name in the listener's process.
fireOf(rpcName) ==
  LET a == RouteEnv(route)
      b == RouteTarget(route)
      name == apiEventName(a, rpcName, b, ids.caller)
  IN /\ canEnvsCommunicate(a, b, "api")
     /\ "fire" \in getRpcMethodsForEnvs(a, b)
     /\ delivery' = [kind |-> "fired", method |-> rpcName, name |-> name,
                     reached |-> subscribersOn(name)]
     /\ UNCHANGED <<ids, listened>>
     /\ UNCHANGED <<contractVars, engineVars, listenVars>>
     /\ UNCHANGED <<registryVars, busVars, objectVars>>

\* The contract was constructed and built in the caller's process and in
\* the listener's process; in each it got the value the module counter of
\* that process had then.  The listener's process may hold other contracts
\* with the same method names, under the other identifiers.
InitLink ==
  /\ route \in ContractRoutes
  /\ realEnv = RouteEnv(route)
  /\ builded = TRUE
  /\ retryOptions = [m \in Methods |-> DefaultRetry]
  /\ lastOp = NoOp
  /\ subscribers = EmptyBag
  /\ apis = {}
  /\ onceRequests = {}
  /\ calls = [c \in CallIds |-> Idle]
  /\ NoListener
  /\ NoRegistry
  /\ NoBus
  /\ NoObjects
  /\ ids \in [caller : ContractIds, listener : ContractIds]
  /\ listened = {}
  /\ delivery = NoDelivery

NextLink ==
  \/ \E j \in ContractIds, listeners \in ListenerChoices :
       subscribeOf(j, listeners)
  \/ \E rpcName \in RpcNames : fireOf(rpcName)

SpecLink == InitLink /\ [][NextLink]_vars

\* ------------------------------------------------------------------ claims

Admitted(c) == calls[c].st # "idle"

MaxOf(c) == retryOptions[calls[c].method].max

C2_TimeoutThenIgnored ==
  [][\A c \in CallIds :
       /\ ( /\ calls[c].timer = "live"
            /\ calls'[c].timer = "fired"
            /\ calls[c].dispatches >= 1
            /\ calls[c].responses = 0
            /\ calls[c].promise = Pending )
          => calls'[c].promise =
               [status |-> "rejected", kind |-> "EvoTimeoutError", v |-> "none"]
       /\ ( /\ calls[c].didTimedOut
            /\ calls'[c].responses = calls[c].responses + 1
            /\ (isBus(route) \/ calls[c].responses = 0) )
          => /\ calls'[c].promise = calls[c].promise
             /\ calls'[c].dispatches = calls[c].dispatches
             /\ calls'[c].retrysCount = calls[c].retrysCount
             /\ calls'[c].timer = calls[c].timer
             /\ onceRequests' = onceRequests]_vars

\* C2 witness: a call rejected by the timeout whose only response, a failure
\* that a retry could have followed, arrived afterwards.
C2_Witness ==
  \E c \in CallIds :
    /\ calls[c].promise.kind = "EvoTimeoutError"
    /\ calls[c].responses = 1
    /\ calls[c].dispatches = 1
    /\ ~calls[c].lastRes.ok
    /\ MaxOf(c) > 0

\* C3 (as claimed): a pending call that receives an ok response before its
\* timer fired is resolved with the data of that response, and a call
\* resolved with data stays so.
C3_ResolvesWithData ==
  [][\A c \in CallIds :
       /\ ( /\ calls[c].promise = Pending
            /\ calls[c].timer = "live"
            /\ calls'[c].responses = calls[c].responses + 1
            /\ calls'[c].lastRes.ok )
          => calls'[c].promise =
               [status |-> "resolved", kind |-> "data",
                v |-> calls'[c].lastRes.payload]
       /\ calls[c].promise.status = "resolved"
          => calls'[c].promise = calls[c].promise]_vars

\* C4: a call never dispatches more than max + 1 requests; a call rejected
\* with a handler error has dispatched exactly max + 1 requests, all
\* answered, and carries the error of the last response; and a call whose
\* max + 1 requests were all answered with failures before the timer fired
\* is rejected with that error.
C4_ExactRetries ==
  \A c \in CallIds :
    Admitted(c) =>
      /\ calls[c].dispatches <= MaxOf(c) + 1
      /\ calls[c].promise.kind = "handlerError"
         => /\ calls[c].promise.status = "rejected"
            /\ calls[c].dispatches = MaxOf(c) + 1
            /\ calls[c].responses = MaxOf(c) + 1
            /\ calls[c].retrysCount = MaxOf(c)
            /\ ~calls[c].lastRes.ok
            /\ calls[c].promise.v = calls[c].lastRes.payload
      /\ ( /\ calls[c].responses = MaxOf(c) + 1
           /\ ~calls[c].lastRes.ok
           /\ ~calls[c].didTimedOut
           /\ calls[c].promise.kind # "EvoOnceError" )
         => /\ calls[c].promise.kind = "handlerError"
            /\ calls[c].promise.v = calls[c].lastRes.payload

\* C4 witness: a ui -> rc call rejected after 1 + 2 dispatches.
C4_Witness ==
  \E c \in CallIds :
    /\ route = "ui-rc"
    /\ calls[c].promise.kind = "handlerError"
    /\ calls[c].dispatches = 3
    /\ MaxOf(c) = 2

\* C5 (as claimed): invoking a method that is in the once registry rejects
\* with the once error and starts no timer, subscribes no handler and emits
\* no request.
C5_OnceNoTransport ==
  [][\A c \in CallIds :
       ( /\ calls[c].st = "idle"
         /\ calls'[c].st # "idle"
         /\ calls'[c].method \in onceRequests )
       => /\ calls'[c].promise.kind = "EvoOnceError"
          /\ calls'[c].dispatches = 0
          /\ calls'[c].timer = "none"
          /\ calls'[c].subscribed = "no"]_vars

\* C10 (as claimed): invoking a method with arguments its validator rejects
\* rejects the call with the validator's error at once.
C10_ValidationRejectsAtOnce ==
  [][\A c \in CallIds :
       ( /\ calls[c].st = "idle"
         /\ calls'[c].st # "idle"
         /\ calls'[c].method \notin onceRequests
         /\ parseThrows(calls'[c].method, calls'[c].argsOk) )
       => calls'[c].promise =
            [status |-> "rejected", kind |-> "ZodError", v |-> "none"]]_vars


IsWiring(op) == op \in {"createApi", "createListener"}

NoSubscriber == \A w \in WireNames : CopiesIn(w, subscribers) = 0

\* C6: as long as build() has not been called, every createApi and
\* createListener call fails with the contract-not-built error
\* (EvoGlobalError), whatever the pair and the real environment, and the
\* contract has no subscriber and has returned no API object.
C6_NotBuilt ==
  ~builded =>
    /\ IsWiring(lastOp.op) => lastOp.error = "EvoGlobalError"
    /\ NoSubscriber
    /\ apis = {}

\* C6 witness: createListener was refused on an unbuilt contract although
\* the pair is legal and the process runs in currentEnv.
C6_Witness ==
  /\ ~builded
  /\ lastOp.op = "createListener"
  /\ lastOp.error = "EvoGlobalError"
  /\ lastOp.currentEnv = realEnv
  /\ <<lastOp.currentEnv, lastOp.targetEnv>> \in {<<"rc", "ui">>}

\* C7 (as claimed): on a built contract every wiring call with a pair outside
\* its capability table fails with the communication error, whatever the
\* real environment.
C7_IllegalPairAlwaysCommunicationError ==
  [][( /\ builded
       /\ IsWiring(lastOp'.op)
       /\ ~canEnvsCommunicate(lastOp'.currentEnv, lastOp'.targetEnv,
                              IF lastOp'.op = "createApi" THEN "api"
                              ELSE "listener") )
     => /\ lastOp'.error = "EvoCommunicationError"
        /\ subscribers' = subscribers
        /\ apis' = apis]_vars

\* C7 (amended): on a built contract a wiring call with a pair outside its
\* capability table always fails and subscribes or returns nothing;
\* createListener fails with the communication error whatever the real
\* environment, createApi fails with it when the process runs in currentEnv
\* and with the environment error otherwise.
C7_IllegalPairFails ==
  [][( /\ builded
       /\ IsWiring(lastOp'.op)
       /\ ~canEnvsCommunicate(lastOp'.currentEnv, lastOp'.targetEnv,
                              IF lastOp'.op = "createApi" THEN "api"
                              ELSE "listener") )
     => /\ lastOp'.error =
             IF lastOp'.op = "createApi" /\ realEnv # lastOp'.currentEnv
             THEN "EvoEnvError"
             ELSE "EvoCommunicationError"
        /\ subscribers' = subscribers
        /\ retryOptions' = retryOptions
        /\ apis' = apis]_vars

\* C7 witness: on a built contract createApi was refused with the
\* communication error for an illegal pair in the matching environment.
C7_Witness ==
  /\ builded
  /\ lastOp.op = "createApi"
  /\ lastOp.currentEnv = realEnv
  /\ ~canEnvsCommunicate(lastOp.currentEnv, lastOp.targetEnv, "api")
  /\ lastOp.error = "EvoCommunicationError"

\* C8 (as claimed): on a built contract every wiring call whose currentEnv
\* is not the real environment fails with the environment error, for every
\* targetEnv.
C8_MismatchAlwaysEnvError ==
  [][( /\ builded
       /\ IsWiring(lastOp'.op)
       /\ realEnv # lastOp'.currentEnv )
     => /\ lastOp'.error = "EvoEnvError"
        /\ subscribers' = subscribers
        /\ apis' = apis]_vars

\* C8 (amended): on a built contract a wiring call whose currentEnv is not
\* the real environment always fails and subscribes or returns nothing;
\* createApi fails with the environment error for every targetEnv,
\* createListener fails with it when the pair is a legal listener pair and
\* with the communication error otherwise.
C8_MismatchFails ==
  [][( /\ builded
       /\ IsWiring(lastOp'.op)
       /\ realEnv # lastOp'.currentEnv )
     => /\ lastOp'.error =
             IF /\ lastOp'.op = "createListener"
                /\ <<lastOp'.currentEnv, lastOp'.targetEnv>> \notin
                     {<<"rs", "rc">>, <<"rc", "rs">>, <<"rc", "ui">>}
             THEN "EvoCommunicationError"
             ELSE "EvoEnvError"
        /\ subscribers' = subscribers
        /\ retryOptions' = retryOptions
        /\ apis' = apis]_vars

\* C8 witness: on a built contract createListener was refused with the
\* environment error for a legal pair of another environment.
C8_Witness ==
  /\ builded
  /\ lastOp.op = "createListener"
  /\ realEnv \in Envs
  /\ lastOp.currentEnv # realEnv
  /\ lastOp.error = "EvoEnvError"

\* C9: canEnvsCommunicate is true exactly for (rs,rc), (rc,rs), (ui,rc) as
\* api and exactly for (rs,rc), (rc,rs), (rc,ui) as listener: never for a
\* pair with current = target, and for (rc,ui) but not (ui,rc) as listener.
\* A wiring call of a built contract in the matching environment succeeds
\* exactly on these pairs.
C9_CapabilityTables ==
  /\ \A current \in Envs, target \in Envs :
       /\ canEnvsCommunicate(current, target, "api")
            <=> \/ (current = "rs" /\ target = "rc")
                \/ (current = "rc" /\ target = "rs")
                \/ (current = "ui" /\ target = "rc")
       /\ canEnvsCommunicate(current, target, "listener")
            <=> \/ (current = "rs" /\ target = "rc")
                \/ (current = "rc" /\ target = "rs")
                \/ (current = "rc" /\ target = "ui")
       /\ current = target
            => /\ ~canEnvsCommunicate(current, target, "api")
               /\ ~canEnvsCommunicate(current, target, "listener")
  /\ ( /\ builded
       /\ lastOp.op = "createListener"
       /\ lastOp.currentEnv = realEnv )
     => ( lastOp.error = "none"
            <=> \/ (lastOp.currentEnv = "rs" /\ lastOp.targetEnv = "rc")
                \/ (lastOp.currentEnv = "rc" /\ lastOp.targetEnv = "rs")
                \/ (lastOp.currentEnv = "rc" /\ lastOp.targetEnv = "ui") )
  /\ ( /\ builded
       /\ lastOp.op = "createApi"
       /\ lastOp.currentEnv = realEnv )
     => ( lastOp.error = "none"
            <=> \/ (lastOp.currentEnv = "rs" /\ lastOp.targetEnv = "rc")
                \/ (lastOp.currentEnv = "rc" /\ lastOp.targetEnv = "rs")
                \/ (lastOp.currentEnv = "ui" /\ lastOp.targetEnv = "rc") )

\* C9 witness: createListener(rc, ui) succeeded and subscribed.
C9_Witness ==
  /\ lastOp.op = "createListener"
  /\ lastOp.currentEnv = "rc"
  /\ lastOp.targetEnv = "ui"
  /\ lastOp.error = "none"
  /\ CopiesIn(<<"rc", "getUser", "ui">>, subscribers) > 0

\* C11: a call whose arguments the validator rejects is never dispatched and
\* never retried: at no time has it emitted a request, counted a retry or
\* had a response handler subscribed, on every route and also after its
\* timer fired.
C11_InvalidNeverDispatched ==
  \A c \in CallIds :
    ( /\ Admitted(c)
      /\ hasArgsSchema(calls[c].method)
      /\ ~calls[c].argsOk )
    => /\ calls[c].dispatches = 0
       /\ calls[c].inflight = 0
       /\ calls[c].retrysCount = 0
       /\ calls[c].subscribed = "no"

\* C11 witness: a createApi call with rejected arguments whose deadline
\* timer has fired.
C11_Witness ==
  \E c \in CallIds :
    /\ route \in ContractRoutes
    /\ calls[c].method = "getUser"
    /\ ~calls[c].argsOk
    /\ calls[c].timer = "fired"

\* C12 (as claimed): on every legal listener pair (rs -> rc, rc -> rs,
\* rc -> ui) a user handler that throws or rejects never lets an exception
\* leave the listener callback: exactly one envelope, a failure envelope, is
\* sent back to the caller.
C12_HandlerThrowBecomesEnvelope ==
  \A r \in RequestIds :
    ( /\ listener \in ContractListeners
      /\ requests[r].st = "done"
      /\ requests[r].invoked
      /\ ~requests[r].result.ret )
    => /\ ~requests[r].escaped
       /\ Len(requests[r].sent) = 1
       /\ ~requests[r].sent[1].ok

\* C13 (as claimed): on every legal listener pair, rc -> ui included, a
\* request whose arguments fail the method's validator never has the user
\* handler invoked and is answered with one failure envelope that carries
\* the validation error, nothing being thrown locally.
C13_InvalidArgsAnswered ==
  \A r \in RequestIds :
    ( /\ listener \in ContractListeners
      /\ requests[r].st \in {"handling", "done"}
      /\ hasArgsSchema(requests[r].method)
      /\ ~requests[r].argsOk )
    => /\ ~requests[r].invoked
       /\ ~requests[r].escaped
       /\ requests[r].sent = <<errorPayload("ZodError", "ZodError")>>

\* C14 (as claimed): a request for a once method of createServer that
\* arrives after the method was consumed is answered with one failure
\* envelope of type EvoOnceError on its response event, without the user
\* handler being invoked and without a local throw.
C14_ConsumedOnceAnswered ==
  [][\A r \in RequestIds :
       ( /\ listener = "server"
         /\ requests[r].st = "idle"
         /\ requests'[r].st # "idle"
         /\ isOnce(requests'[r].method)
         /\ requests'[r].method \in serverOnceRequests )
       => /\ requests'[r].sent = <<errorPayload("EvoOnceError", "none")>>
          /\ ~requests'[r].invoked
          /\ ~requests'[r].escaped]_vars

\* C15 (as claimed): over the lifetime of a createServer listener the user
\* handler of a once method is invoked at most one time, under every
\* interleaving of the inbound requests.
C15_OnceHandlerAtMostOnce ==
  \A m \in Methods :
    isOnce(m) =>
      Cardinality({r \in RequestIds :
                     requests[r].method = m /\ requests[r].invoked}) <= 1

\* C16 (as claimed): on one API object at most one invocation of a once
\* method ever resolves successfully, under every interleaving of
\* invocations and responses.
C16_OnceResolvesAtMostOnce ==
  \A m \in Methods :
    isOnce(m) =>
      Cardinality({c \in CallIds :
                     /\ calls[c].method = m
                     /\ calls[c].promise.status = "resolved"}) <= 1

\* C17 (as claimed): once createApi has returned, the retry policy of every
\* method has max <= 10 and either forceDelay set or a delay >= 500, also
\* when the contract gave retryOptions without a delay; values out of range
\* were clamped to 10 and 500 and values in range were left as given.
C17_RetryPolicyClamped ==
  [][( /\ lastOp'.op = "createApi"
       /\ lastOp'.error = "none" )
     => \A m \in Methods :
          /\ retryOptions'[m].max <= MaxRetries
          /\ \/ retryOptions'[m].forceDelay
             \/ ( /\ retryOptions'[m].delay # Undefined
                  /\ retryOptions'[m].delay >= MinDelay )
          /\ retryOptions'[m].max =
               IF retryOptions[m].max > MaxRetries THEN MaxRetries
               ELSE retryOptions[m].max
          /\ ( /\ retryOptions[m].delay # Undefined
               /\ retryOptions[m].delay >= MinDelay )
             => retryOptions'[m].delay = retryOptions[m].delay]_vars

\* C18: isBuilded() is false from construction until the first build(),
\* true after it, and never false again under any sequence of build,
\* createApi and createListener calls; build() returns the contract it was
\* called on.
C18_BuildedLatch ==
  [][/\ \A k \in DOMAIN contracts' :
          /\ k \notin DOMAIN contracts => ~contracts'[k].builded
          /\ k \in DOMAIN contracts =>
               /\ contracts[k].builded => contracts'[k].builded
               /\ (~contracts[k].builded /\ contracts'[k].builded)
                    => /\ registryOp'.op = "build"
                       /\ registryOp'.contract = k
     /\ ( /\ registryOp'.op = "build"
          /\ registryOp' # registryOp )
        => /\ contracts'[registryOp'.contract].builded
           /\ registryOp'.returns = registryOp'.contract]_vars

\* C18 witness: a built contract is still built after a createListener call
\* that subscribed, beside a contract that was never built.
C18_Witness ==
  /\ Len(contracts) = 2
  /\ contracts[1].builded
  /\ ~contracts[2].builded
  /\ registryOp.op = "createListener"
  /\ registryOp.contract = 1
  /\ registryOp.wasBuilt
  /\ \E w \in wired : w[1] = 1

\* C19: after one or several build() calls the timeout of a contract is the
\* one supplied at construction, or the default 7500 when none was supplied
\* (no options, or options without a timeout), and a build() of a built
\* contract leaves its options as they were.
C19_BuildIdempotent ==
  [][\A k \in DOMAIN contracts' :
       /\ contracts'[k].builded =>
            contracts'[k].options =
              [has |-> TRUE,
               timeout |-> IF contracts'[k].given.some /\ contracts'[k].given.o.has
                           THEN contracts'[k].given.o.timeout
                           ELSE defaultContractOptions.timeout]
       /\ (k \in DOMAIN contracts /\ contracts[k].builded)
            => contracts'[k].options = contracts[k].options]_vars

\* C19 witness: a second build() of a contract constructed with a timeout
\* of its own.
C19_Witness ==
  /\ registryOp.op = "build"
  /\ registryOp.wasBuilt
  /\ contracts[registryOp.contract].given.some
  /\ contracts[registryOp.contract].given.o.has
  /\ contracts[registryOp.contract].options.timeout
       # defaultContractOptions.timeout

\* C20: a contract gets its identifier from the counter at construction,
\* greater than those of all contracts constructed before; build, createApi
\* and createListener never change an identifier; and two distinct contracts
\* never have the same wire name: neither for one method name and
\* environment pair, nor between the names a call wires and any name of
\* another contract.
C20_UniqueContractIds ==
  [][/\ \A k \in DOMAIN contracts' :
          /\ k \in DOMAIN contracts => contracts'[k].uuid = contracts[k].uuid
          /\ k \notin DOMAIN contracts =>
               /\ contracts'[k].uuid = contractsLength
               /\ \A j \in DOMAIN contracts :
                    /\ contracts'[j].uuid < contracts'[k].uuid
                    /\ \A a \in Envs, b \in Envs, n \in RpcNames :
                         rpcEventName(a, n, b, contracts'[j].uuid)
                           # rpcEventName(a, n, b, contracts'[k].uuid)
     /\ \A w \in wired' : \A j \in DOMAIN contracts' :
          j # w[1] =>
            \A a \in Envs, b \in Envs, n \in RpcNames :
              rpcEventName(a, n, b, contracts'[j].uuid) # w[2]]_vars

\* C20 witness: the second of two built contracts was wired, on a method
\* name that ends like a wire name of the first.
C20_Witness ==
  /\ Len(contracts) = 2
  /\ contracts[1].builded
  /\ \E w \in wired :
       /\ w[1] = 2
       /\ Len(w[2]) > 7

\* C25 (as claimed): on every legal api pair a call that succeeds is
\* resolved with the data field of the ok response, never with the envelope
\* itself, on the first attempt as on a retry.
C25_ResolvesDataField ==
  \A c \in CallIds :
    ( /\ route \in ContractRoutes
      /\ calls[c].promise.status = "resolved" )
    => /\ calls[c].promise.kind = "data"
       /\ calls[c].lastRes.ok
       /\ calls[c].promise.v = calls[c].lastRes.payload

\* C26 (as claimed): a call that reached a terminal outcome has no live
\* deadline timer and no subscribed response handler.
C26_FinishedCallTornDown ==
  \A c \in CallIds :
    calls[c].promise.status # "pending"
      => /\ calls[c].timer # "live"
         /\ calls[c].subscribed # "yes"

\* C29 (as claimed): once the deadline timer of a call has fired, no further
\* request is dispatched for it, on any transport.
C29_NoDispatchAfterTimeout ==
  [][\A c \in CallIds :
       calls[c].didTimedOut
         => calls'[c].dispatches = calls[c].dispatches]_vars

\* C27 (as claimed): createApi and createListener on a built contract leave
\* the retryOptions of every method as they were supplied at construction.
C27_MethodSpecsUnchanged ==
  [][( /\ builded
       /\ IsWiring(lastOp'.op) )
     => retryOptions' = retryOptions]_vars

\* C30 (as claimed): for every inbound request whose callback ended, the
\* listener sent exactly one response envelope to the request's response
\* event, also when logFormat threw after the success envelope.
C30_ExactlyOneEnvelope ==
  \A r \in RequestIds :
    requests[r].st = "done" => Len(requests[r].sent) = 1

\* The call engine with deadline timers that eventually fire: a timer that
\* is live is not live forever.
SpecLive ==
  /\ Spec
  /\ \A c \in CallIds : WF_vars(TimeoutApi(c)) /\ WF_vars(TimeoutClient(c))

\* C24 (as claimed): provided the deadline timers eventually fire, every
\* invocation eventually reaches a terminal outcome, whatever the listener
\* answers or fails to answer, and a call never dispatches more than
\* max + 1 <= 11 requests.
C24_EventuallyTerminal ==
  \A c \in CallIds :
    /\ [](Admitted(c) => /\ calls[c].dispatches <= MaxOf(c) + 1
                         /\ MaxOf(c) + 1 <= MaxRetries + 1)
    /\ Admitted(c) ~> (calls[c].promise.status # "pending")

\* C21: a createListener call that returns normally adds exactly one
\* subscriber on the wire name of every method it was given a handler for
\* and none on any other wire name; a createServer call adds exactly one
\* callback on the event of every method of its handler object and none on
\* the event of any other method.
C21_OneSubscriberPerHandler ==
  [][/\ ( /\ lastOp'.op = "createListener"
          /\ lastOp'.error = "none" )
        => \A listeners \in HandlerSets :
             createListener(lastOp'.currentEnv, lastOp'.targetEnv, listeners)
             => /\ \A w \in WireNames :
                     CopiesIn(w, subscribers') =
                       IF /\ w[1] = lastOp'.currentEnv
                          /\ w[3] = lastOp'.targetEnv
                          /\ w[2] \in listeners
                       THEN CopiesIn(w, subscribers) + 1
                       ELSE CopiesIn(w, subscribers)
                /\ onNetHandlers' = onNetHandlers
     /\ lastOp'.op = "createServer"
        => \A opts \in HandlerSets :
             createServer(opts)
             => /\ \A m \in Methods :
                     onNetHandlers'[m] =
                       IF m \in opts THEN onNetHandlers[m] + 1
                       ELSE onNetHandlers[m]
                /\ subscribers' = subscribers]_vars

\* C21 witness: createListener(rc, ui) with a handler for getUser alone and
\* createServer with handlers for getNone and login have both returned.
C21_Witness ==
  /\ CopiesIn(<<"rc", "getUser", "ui">>, subscribers) = 1
  /\ CopiesIn(<<"rc", "getNone", "ui">>, subscribers) = 0
  /\ onNetHandlers["getNone"] = 1
  /\ onNetHandlers["login"] = 1
  /\ onNetHandlers["getUser"] = 0


\* C22: on the bus routes, with several calls in flight at once, every call
\* that dispatched has put exactly one response handler on the bus, under
\* its own correlation id, and the response to a request of one call leaves
\* every call that holds a different correlation id exactly as it was:
\* neither resolved, nor rejected, nor retried.
C22_ResponsesStayOnTheirCall ==
  [][\A c \in CallIds :
       /\ calls'[c].dispatches > 0 => subscribedOn'[c] = {responseEvent'[c]}
       /\ \A d \in CallIds :
            (/\ d # c
             /\ calls[c].inflight > 0
             /\ calls[d].st # "idle"
             /\ responseEvent[d] # responseEvent[c]
             /\ calls'[c].responses = calls[c].responses + 1)
            => /\ calls'[d] = calls[d]
               /\ fired'[d] = fired[d]]_vars

\* Two calls to the same method hold different correlation ids, both wait
\* for an answer, and the first one was answered.
C22_Witness ==
  /\ calls[1].method = "getUser" /\ calls[2].method = "getUser"
  /\ responseEvent[1] # responseEvent[2]
  /\ calls[1].responses > 0 /\ calls[1].promise.status = "resolved"
  /\ calls[2].inflight > 0 /\ calls[2].promise.status = "pending"

\* C23: every request a call re-dispatches is the request it dispatched
\* first (same wire name, same parsed arguments, same correlation id); a
\* retry puts no further handler on the bus and leaves the deadline timer
\* as it was, so that a timer that was live can still fire; no retry is
\* made once the timer fired.
C23_RetryKeepsIdArgsTimer ==
  [][\A c \in CallIds :
       (calls[c].dispatches > 0 /\ calls'[c].dispatches > calls[c].dispatches)
       => /\ fired'[c] = fired[c]
          /\ Cardinality(fired'[c]) = 1
          /\ \A msg \in fired'[c] : /\ msg.responseEvent = responseEvent[c]
                                    /\ msg.args = "parsedArgs"
          /\ subscribedOn'[c] = subscribedOn[c]
          /\ calls'[c].subscribed = calls[c].subscribed
          /\ calls'[c].timer = calls[c].timer
          /\ calls'[c].didTimedOut = calls[c].didTimedOut
          /\ ~calls[c].didTimedOut
          /\ calls[c].timer = "live" => ENABLED CorrelatedTimeout(c)]_vars

\* A call was retried and its timer then fired.
C23_Witness ==
  \E c \in CallIds :
    /\ calls[c].retrysCount > 0
    /\ calls[c].dispatches > 1
    /\ calls[c].timer = "fired"
    /\ calls[c].promise.kind = "EvoTimeoutError"


\* C28: the once registry belongs to one object.  A call on an API object
\* is rejected with EvoOnceError, and a request to a listener object is
\* answered with EvoOnceError, only when the method was consumed on that
\* very object; and a call or a request on one object leaves the registry
\* of every other object, API or listener, as it was.
C28_OnceRegistryPerObject ==
  [][LET op == objectOp'
     IN /\ (op.kind = "call" /\ op.onceError)
             => op.method \in clientOnce[op.object]
        /\ (op.kind = "request" /\ op.onceError)
             => op.method \in serverOnce[op.object]
        /\ \A p \in ObjectIds :
             /\ (op.kind # "call" \/ p # op.object)
                  => clientOnce'[p] = clientOnce[p]
             /\ (op.kind # "request" \/ p # op.object)
                  => serverOnce'[p] = serverOnce[p]]_vars

\* The once method was consumed on API object 1 and on listener object 1,
\* and the last call, made on API object 2, resolved with its data.
C28_Witness ==
  /\ "login" \in clientOnce[1]
  /\ "login" \in serverOnce[1]
  /\ "login" \notin serverOnce[2]
  /\ objectOp.kind = "call"
  /\ objectOp.object = 2
  /\ objectOp.method = "login"
  /\ objectOp.ok
  /\ ~objectOp.onceError


\* C31 (as claimed): a request that createApi(a, b) fires for method m goes
\* out on the wire name createListener(b, a) subscribes on for m when both
\* processes gave the contract the same identifier, on each of the three
\* routes, and then reaches the contract's listener if it has a handler for
\* m; when the identifiers differ the two names differ and the request
\* reaches no subscriber.
C31_SameWireNameBothEnds ==
  delivery.kind = "fired" =>
    LET a == RouteEnv(route)
        b == RouteTarget(route)
        theirs == listenerEventName(b, delivery.method, a, ids.listener)
    IN IF ids.caller = ids.listener
       THEN /\ delivery.name = theirs
            /\ <<ids.listener, theirs>> \in listened
                 => ids.listener \in delivery.reached
       ELSE /\ delivery.name # theirs
            /\ delivery.reached = {}

====
